---------------------------- MODULE Spec2Model ----------------------------
(***************************************************************************)
(* A model of the FinsightAI crawler core:                                 *)
(*   - the URL sanitizer chain      (crawler/sanitizer/urls.py)            *)
(*   - the structured extractor     (crawler/core/content_extractor.py)    *)
(*   - the URL extractor crawler    (crawler/core/url/base.py)             *)
(*   - the scroll search strategy   (crawler/core/url/scroll_search.py)    *)
(*   - the deep search strategy     (crawler/core/url/deep_search.py)      *)
(*   - the datetime sanitizers      (crawler/sanitizer/datetime.py)        *)
(* Each component has its own specification; the variables of the other    *)
(* components stay at their idle values.                                   *)
(***************************************************************************)
EXTENDS Integers, Sequences, FiniteSets, TLC

VARIABLES
    \* ---- URLSanitizerChain.sanitize
    sanitizers,        \* self.sanitizers
    san_urls,          \* the `urls` argument
    unique,            \* the `unique` argument
    unique_given,      \* whether the caller passed `unique` at all
    san_i,             \* number of input URLs consumed by the for loop
    cleaned_urls,      \* the local list cleaned_urls
    san_pc,            \* "loop" | "returned"
    san_ret,           \* the returned list
    san_calls,         \* per URL consumed, the sanitizer.sanitize calls made
    san_pass,          \* 1: first call; 2: sanitize called again on its output
    san_first,         \* what the first call returned, once called again
    \* ---- StructuredExtractor.extract
    ext_urls,          \* the `urls` argument
    ext_i,             \* number of URLs the for loop has taken
    structured_data,   \* the local list structured_data
    ext_log,           \* what crawler.arun gave for each URL taken so far
    ext_pc,            \* "loop" | "returned" | "raised"
    ext_ret,           \* the returned list
    extraction_strategy,  \* self.extraction_strategy
    schema_calls,      \* number of generate_schema calls made so far
    ext_configs,       \* the extraction_strategy of every arun call issued
    \* ---- URLExtractorCrawler.extract with a ScrollSearchStrategy
    ctor_run_config,   \* the run_config argument of the constructor
    run_config,        \* self.run_config
    session_id,        \* self.session_id
    duration_seconds,  \* strategy.duration_seconds
    scroll_interval,   \* strategy.scroll_interval
    sanitizer,         \* the sanitizer chain handed to extract
    cr_pc,             \* where the extract call stands
    now,               \* time.time()
    start_time,        \* explore's start_time
    collected_links,   \* explore's collected_links
    scroll_count,      \* explore's scroll_count
    result,            \* explore's result, while it is in use
    seed_result,       \* what the seed load gave
    arun_log,          \* the config of every crawler.arun call issued
    sleeps,            \* number of asyncio.sleep calls completed
    action_time,       \* time the last scroll action took
    cr_ret,            \* the list extract returned
    \* ---- two extract calls running on one URLExtractorCrawler
    cc_session_id,     \* self.session_id of the shared instance
    cc_duration,       \* strategy.duration_seconds
    cc_interval,       \* strategy.scroll_interval
    cc_now,            \* time.time()
    cc_pc,             \* where each extract call stands
    cc_start,          \* each call's start_time
    cc_wake,           \* when each call's asyncio.sleep ends
    \* ---- DeepSearchStrategy.explore
    max_depth,         \* self.max_depth
    max_pages,         \* self.max_pages
    ds_session_id,     \* the session_id argument
    ds_config,         \* the CrawlerRunConfig handed to crawler.arun
    ds_stream,         \* the results the deep crawl streams
    ds_i,              \* number of streamed results the async for has taken
    extracted_links,   \* the local list extracted_links
    ds_pc,             \* "start" | "streaming" | "returned" | "raised"
    ds_ret,            \* the returned list
    \* ---- ChainedDatetimeSanitizer.sanitize
    dt_sanitizers,     \* self.sanitizers
    dt_value,          \* the `value` argument
    dt_i,              \* number of sanitizers the for loop has tried
    dt_calls,          \* the sanitizer.sanitize calls made, with their outcome
    last_exception,    \* the local last_exception
    dt_pc,             \* "loop" | "returned" | "raised"
    dt_ret,            \* what the call returned or raised
    \* ---- Inserter.insert_documents
    ins_documents,     \* the `documents` argument
    uuid_properties,   \* the `uuid_properties` argument
    summarize,         \* the `summarize` argument
    collection,        \* the objects the Weaviate collection holds, by UUID
    batch,             \* objects added to the dynamic batch and not yet sent
    ins_added,         \* the batch.add_object calls made, in order
    ins_i,             \* number of documents the for loop has consumed
    ins_pc,            \* "loop" | "returned" | "raised"
    fetch_errors,      \* number of fetch_object_by_id calls that raised
    \* ---- assistant: the tools of the agent and stream_from_agent
    portafolio,        \* deps.portafolio.activos
    propuesta,         \* deps.propuesta.activos
    as_pc,             \* "idle" between chat turns | "turn" inside one
    as_turn,           \* number of stream_from_agent calls started
    as_calls,          \* the tool calls of the conversation, in order
    as_shown,          \* what the last ver_portafolio call returned
    \* ---- SchemaManager
    collections,       \* the collections of the Weaviate instance, by name
    sm_log,            \* the create/delete calls made, in order
    sm_pc              \* "ready" | "raised"

sanvars ==
    <<sanitizers, san_urls, unique, unique_given, san_i, cleaned_urls, san_pc,
      san_ret, san_calls, san_pass, san_first>>

extvars ==
    <<ext_urls, ext_i, structured_data, ext_log, ext_pc, ext_ret,
      extraction_strategy, schema_calls, ext_configs>>

crvars ==
    <<ctor_run_config, run_config, session_id, duration_seconds, scroll_interval,
      sanitizer, cr_pc, now, start_time, collected_links, scroll_count, result,
      seed_result, arun_log, sleeps, action_time, cr_ret>>

ccvars ==
    <<cc_session_id, cc_duration, cc_interval, cc_now, cc_pc, cc_start, cc_wake>>

dsvars ==
    <<max_depth, max_pages, ds_session_id, ds_config, ds_stream, ds_i,
      extracted_links, ds_pc, ds_ret>>

dtvars ==
    <<dt_sanitizers, dt_value, dt_i, dt_calls, last_exception, dt_pc, dt_ret>>

insvars ==
    <<ins_documents, uuid_properties, summarize, collection, batch, ins_added,
      ins_i, ins_pc, fetch_errors>>

asvars == <<portafolio, propuesta, as_pc, as_turn, as_calls, as_shown>>

smvars == <<collections, sm_log, sm_pc>>

vars ==
    <<sanvars, extvars, crvars, ccvars, dsvars, dtvars, insvars, asvars, smvars>>

\* what the actions of one component leave alone
san_others == <<extvars, crvars, ccvars, dsvars, dtvars, insvars, asvars, smvars>>

ext_others == <<sanvars, crvars, ccvars, dsvars, dtvars, insvars, asvars, smvars>>

cr_others == <<sanvars, extvars, ccvars, dsvars, dtvars, insvars, asvars, smvars>>

cc_others == <<sanvars, extvars, crvars, dsvars, dtvars, insvars, asvars, smvars>>

ds_others == <<sanvars, extvars, crvars, ccvars, dtvars, insvars, asvars, smvars>>

dt_others == <<sanvars, extvars, crvars, ccvars, dsvars, insvars, asvars, smvars>>

old_others == <<sanvars, extvars, crvars, ccvars, dsvars, dtvars>>

ins_others == <<old_others, asvars, smvars>>

as_others == <<old_others, insvars, smvars>>

sm_others == <<old_others, insvars, asvars>>

-----------------------------------------------------------------------------
(* Bounds *)

MaxUrls == 3          \* longest input list handed to sanitize
MaxChain == 2         \* longest sanitizer chain
MaxExtUrls == 3       \* longest URL list handed to StructuredExtractor.extract
MaxRecords == 2       \* most records one page yields
MaxDuration == 2      \* largest duration_seconds, in clock ticks
MaxInterval == 1      \* largest scroll_interval, in clock ticks
MaxActionTime == 2    \* longest time one crawler.arun call takes, in ticks
MaxScrolls == 3       \* most iterations followed when the clock stands still
MaxClock == 3         \* last clock tick followed while two calls run
MaxStream == 3        \* most results one deep crawl streams
MaxDtChain == 2       \* longest datetime sanitizer chain
MaxDocs == 2          \* longest document list handed to insert_documents
MaxTurns == 2         \* most chat turns of one conversation
MaxToolCalls == 3     \* most tool calls of one conversation
MaxSchemaCalls == 3   \* most create/delete calls followed

-----------------------------------------------------------------------------
(* Optional[str]: a URL is None or a string, a string is a sequence of     *)
(* characters.  "a" and "b" stand for ordinary characters, "?" starts the  *)
(* query string.                                                           *)

None == [none |-> TRUE, chars |-> <<>>]

Str(s) == [none |-> FALSE, chars |-> s]

\* Python truthiness of an Optional[str]: None and "" are falsy.
Truthy(url) == ~url.none /\ url.chars # <<>>

URLS ==
    { None,
      Str(<<>>),
      Str(<<"a">>),
      Str(<<"b">>),
      Str(<<"a", "?", "b">>),
      Str(<<"?", "a">>) }

\* str.startswith
StartsWith(s, p) == Len(p) <= Len(s) /\ SubSeq(s, 1, Len(p)) = p

\* re.sub(r'\?.*$', '', s): everything from the first "?" on is removed.
RECURSIVE ReSubQuery(_)
ReSubQuery(s) ==
    IF s = <<>> THEN <<>>
    ELSE IF Head(s) = "?" THEN <<>>
    ELSE <<Head(s)>> \o ReSubQuery(Tail(s))

\* a sanitizer without its `if not url` test
NoFalsyGuard(url) == FALSE

\* `if not url: return None`
FalsyGuard(url) == ~Truthy(url)

RemoveQueryParametersSanitizer(url) ==
    IF FalsyGuard(url) THEN None ELSE Str(ReSubQuery(url.chars))

PrefixSanitizer(prefix, url) ==
    IF FalsyGuard(url) THEN None
    ELSE IF StartsWith(url.chars, prefix) THEN url ELSE None

RemoveNoneSanitizer(url) == IF Truthy(url) THEN url ELSE None

\* The sanitizer objects a chain is built from.
QueryStrip == [kind |-> "query", prefix |-> <<>>]

PrefixFilter(p) == [kind |-> "prefix", prefix |-> p]

NoneFilter == [kind |-> "none", prefix |-> <<>>]

PREFIX == <<"a">>

SANITIZERS == {QueryStrip, PrefixFilter(PREFIX), NoneFilter}

\* sanitizer.sanitize(url), dispatched on the sanitizer's class
HandlerSanitize(h, url) ==
    CASE h.kind = "query" -> RemoveQueryParametersSanitizer(url)
      [] h.kind = "prefix" -> PrefixSanitizer(h.prefix, url)
      [] h.kind = "none" -> RemoveNoneSanitizer(url)

\* Whether sanitizer.sanitize(url) raises: re.sub raises TypeError and
\* url.startswith raises AttributeError when they are reached with None;
\* `url if url else None` raises for no value.
HandlerRaises(h, url) ==
    CASE h.kind = "query" -> ~FalsyGuard(url) /\ url.none
      [] h.kind = "prefix" -> ~FalsyGuard(url) /\ url.none
      [] h.kind = "none" -> FALSE

\* One sanitizer.sanitize call: which sanitizer, what it got, what it gave.
SanitizerCall(k, arg, out) == [handler |-> k, arg |-> arg, out |-> out]

\* A chain loop without `if url is None: return None`: every sanitizer is
\* called, whatever the one before it returned.
RECURSIVE SanitizeRunToEnd(_, _, _)
SanitizeRunToEnd(chain, k, url) ==
    IF k > Len(chain) THEN [out |-> url, calls |-> <<>>]
    ELSE LET u == HandlerSanitize(chain[k], url)
             rest == SanitizeRunToEnd(chain, k + 1, u)
         IN [out |-> rest.out,
             calls |-> <<SanitizerCall(k, url, u)>> \o rest.calls]

\* URLSanitizerChain._sanitize_url, the chain from position k on: the value
\* it returns and the sanitizer calls it makes on the way.
RECURSIVE SanitizeRun(_, _, _)
SanitizeRun(chain, k, url) ==
    IF k > Len(chain) THEN [out |-> url, calls |-> <<>>]
    ELSE LET u == HandlerSanitize(chain[k], url)
         IN IF u = None
            THEN [out |-> None, calls |-> <<SanitizerCall(k, url, u)>>]
            ELSE LET rest == SanitizeRun(chain, k + 1, u)
                 IN [out |-> rest.out,
                     calls |-> <<SanitizerCall(k, url, u)>> \o rest.calls]

\* A chain in which every sanitizer is handed the URL the chain was given,
\* not the output of the sanitizer before it.
RECURSIVE SanitizeEachOriginal(_, _, _)
SanitizeEachOriginal(chain, k, url) ==
    IF k > Len(chain) THEN url
    ELSE LET u == HandlerSanitize(chain[k], url)
         IN IF u = None THEN None
            ELSE IF k = Len(chain) THEN u
            ELSE SanitizeEachOriginal(chain, k + 1, url)

\* the value URLSanitizerChain._sanitize_url returns
SanitizeFrom(chain, k, url) == SanitizeRun(chain, k, url).out

\* whether one of the sanitizer calls _sanitize_url makes for url raises
ChainRaises(chain, url) ==
    LET calls == SanitizeRun(chain, 1, url).calls
    IN \E c \in DOMAIN calls : HandlerRaises(chain[calls[c].handler], calls[c].arg)

sanitize_url(chain, url) == SanitizeFrom(chain, 1, url)

\* `if sanitized is not None`
KeepsSanitized(sanitized) == sanitized # None

Range(s) == {s[k] : k \in DOMAIN s}

\* list(set(xs)): the elements of xs once each, in an order Python does not fix
ListOfSet(xs) ==
    LET S == Range(xs)
        n == Cardinality(S)
    IN {p \in [1..n -> S] : Range(p) = S}

\* A signature `unique=True`.
DefaultUniqueTrue == TRUE

\* the default of the `unique` parameter
DefaultUnique == FALSE

\* the value `unique` has in the body of sanitize
UniqueArgument(given, value) == IF given THEN value ELSE DefaultUnique

\* `cleaned_urls if unique else list(set(cleaned_urls))`
SanitizeReturnValues(u, cleaned) ==
    IF u THEN {cleaned} ELSE ListOfSet(cleaned)

SeqsUpTo(S, n) == UNION {[1..k -> S] : k \in 0..n}

Injective(s) == \A i, j \in DOMAIN s : s[i] = s[j] => i = j

CHAINS == {c \in SeqsUpTo(SANITIZERS, MaxChain) : Injective(c)}

-----------------------------------------------------------------------------
(* URLSanitizerChain.sanitize *)

SanInit ==
    /\ sanitizers \in CHAINS
    /\ san_urls \in SeqsUpTo(URLS, MaxUrls)
    /\ unique_given \in BOOLEAN
    /\ unique \in {UniqueArgument(unique_given, v) : v \in BOOLEAN}
    /\ san_i = 0
    /\ cleaned_urls = <<>>
    /\ san_pc = "loop"
    /\ san_ret = <<>>
    /\ san_calls = <<>>
    /\ san_pass = 1
    /\ san_first = <<>>

\* one iteration of `for url in urls`; an exception of a sanitizer would
\* leave sanitize
SanitizeLoop ==
    /\ san_pc = "loop"
    /\ san_i < Len(san_urls)
    /\ LET sanitized == sanitize_url(sanitizers, san_urls[san_i + 1])
           raises == ChainRaises(sanitizers, san_urls[san_i + 1])
       IN /\ cleaned_urls' = IF ~raises /\ KeepsSanitized(sanitized)
                             THEN Append(cleaned_urls, sanitized)
                             ELSE cleaned_urls
          /\ san_pc' = IF raises THEN "raised" ELSE san_pc
    /\ san_calls' =
           Append(san_calls, SanitizeRun(sanitizers, 1, san_urls[san_i + 1]).calls)
    /\ san_i' = san_i + 1
    /\ UNCHANGED <<sanitizers, san_urls, unique, unique_given, san_ret,
                   san_pass, san_first, san_others>>

\* the return statement
SanitizeReturn ==
    /\ san_pc = "loop"
    /\ san_i = Len(san_urls)
    /\ san_ret' \in SanitizeReturnValues(unique, cleaned_urls)
    /\ san_pc' = "returned"
    /\ UNCHANGED <<sanitizers, san_urls, unique, unique_given, san_i,
                   cleaned_urls, san_calls, san_pass, san_first, san_others>>

\* sanitize is called again, on the list it has just returned, with the same
\* chain and the same `unique`
SanitizeAgain ==
    /\ san_pc = "returned"
    /\ san_pass = 1
    /\ san_first' = san_ret
    /\ san_urls' = san_ret
    /\ san_pass' = 2
    /\ san_i' = 0
    /\ cleaned_urls' = <<>>
    /\ san_calls' = <<>>
    /\ san_ret' = <<>>
    /\ san_pc' = "loop"
    /\ UNCHANGED <<sanitizers, unique, unique_given, san_others>>

SanNext == SanitizeLoop \/ SanitizeReturn \/ SanitizeAgain

SanIdle ==
    /\ sanitizers = <<>>
    /\ san_urls = <<>>
    /\ unique = FALSE
    /\ unique_given = FALSE
    /\ san_i = 0
    /\ cleaned_urls = <<>>
    /\ san_pc = "idle"
    /\ san_ret = <<>>
    /\ san_calls = <<>>
    /\ san_pass = 1
    /\ san_first = <<>>

-----------------------------------------------------------------------------
(* StructuredExtractor.extract *)

ExtURLS == {"u1", "u2"}

NoUrl == "absent"     \* a record without a `url` key

\* result.extracted_content: a JSON array of n records, a text that is not
\* JSON, or no content at all (None)
ArrayContent(n) == [json |-> "array", n |-> n]

InvalidContent == [json |-> "invalid", n |-> 0]

NullContent == [json |-> "null", n |-> 0]

Contents == {ArrayContent(n) : n \in 0..MaxRecords} \cup {InvalidContent, NullContent}

\* What `await self.crawler.arun(...)` can give: an exception (a timeout
\* included), None, or a CrawlResult with its success flag and content.
ArunRaises == [kind |-> "raise", success |-> FALSE, content |-> NullContent]

ArunNone == [kind |-> "none", success |-> FALSE, content |-> NullContent]

CrawlResult(success, content) == [kind |-> "result", success |-> success, content |-> content]

ArunOutcomes ==
    {ArunRaises, ArunNone}
        \cup {CrawlResult(TRUE, c) : c \in Contents}
        \cup {CrawlResult(FALSE, c) : c \in {NullContent, ArrayContent(1)}}

\* The records the extraction strategy found on page number i of the batch;
\* origin and idx identify the record, url is its `url` key.
PageRecords(i, n) == [j \in 1..n |-> [origin |-> i, idx |-> j, url |-> NoUrl]]

\* a loop body that merges whatever content the result carries
ResultSuccessIgnored(res) == TRUE

\* `if result.success:` (on None the attribute access raises)
ResultSuccess(res) == res.success

\* json.loads(content): the parsed array, or an exception
JsonLoadsRaises(content) == content.json # "array"

JsonLoads(i, content) == PageRecords(i, content.n)

\* json_data[0]["url"] = result.url: raises IndexError on an empty array
StampRaises(json_data) == Len(json_data) = 0

StampUrl(json_data, url) ==
    [j \in DOMAIN json_data |->
        IF j = 1 THEN [json_data[j] EXCEPT !.url = url] ELSE json_data[j]]

\* Whether the loop body raises for this outcome of arun
BodyRaises(i, res) ==
    \/ res.kind \in {"raise", "none"}
    \/ /\ ResultSuccess(res)
       /\ \/ JsonLoadsRaises(res.content)
          \/ StampRaises(JsonLoads(i, res.content))

\* structured_data after the loop body, when it does not raise
BodyData(data, i, url, res) ==
    IF ResultSuccess(res)
    THEN data \o StampUrl(JsonLoads(i, res.content), url)
    ELSE data

\* The strategy objects a StructuredExtractor is built with: a
\* JsonCssExtractionStrategy over a fixed schema or over one inferred by
\* generate_schema, or an LLMExtractionStrategy.  `id` is the object's identity.
ExtractionStrategy(kind, schema) == [kind |-> kind, schema |-> schema, id |-> 0]

EXTRACTION_STRATEGIES ==
    {ExtractionStrategy("css", "static"),
     ExtractionStrategy("css", "inferred"),
     ExtractionStrategy("llm", "none")}

\* generate_schema calls made to build a strategy
SchemaCallsOf(strategy) == IF strategy.schema = "inferred" THEN 1 ELSE 0

\* a loop that builds a strategy of its own for the i-th URL
FreshStrategyPerUrl(strategy, i) == [strategy EXCEPT !.id = i]

\* `extraction_strategy=self.extraction_strategy` in the i-th arun call
ConfigStrategy(strategy, i) == strategy

ExtInit ==
    /\ extraction_strategy \in EXTRACTION_STRATEGIES
    /\ schema_calls = SchemaCallsOf(extraction_strategy)
    /\ ext_configs = <<>>
    /\ ext_urls \in SeqsUpTo(ExtURLS, MaxExtUrls)
    /\ ext_i = 0
    /\ structured_data = <<>>
    /\ ext_log = <<>>
    /\ ext_pc = "loop"
    /\ ext_ret = <<>>

\* one iteration of `for url in urls` that completes
ExtractLoop ==
    /\ ext_pc = "loop"
    /\ ext_i < Len(ext_urls)
    /\ \E res \in ArunOutcomes :
         /\ ~BodyRaises(ext_i + 1, res)
         /\ ext_log' = Append(ext_log, res)
         /\ ext_configs' =
                Append(ext_configs, ConfigStrategy(extraction_strategy, ext_i + 1))
         /\ structured_data' =
                BodyData(structured_data, ext_i + 1, ext_urls[ext_i + 1], res)
    /\ ext_i' = ext_i + 1
    /\ UNCHANGED <<ext_urls, ext_pc, ext_ret, extraction_strategy, schema_calls,
                   ext_others>>

\* one iteration that raises: the exception leaves extract
ExtractRaise ==
    /\ ext_pc = "loop"
    /\ ext_i < Len(ext_urls)
    /\ \E res \in ArunOutcomes :
         /\ BodyRaises(ext_i + 1, res)
         /\ ext_log' = Append(ext_log, res)
         /\ ext_configs' =
                Append(ext_configs, ConfigStrategy(extraction_strategy, ext_i + 1))
    /\ ext_i' = ext_i + 1
    /\ ext_pc' = "raised"
    /\ UNCHANGED <<ext_urls, structured_data, ext_ret, extraction_strategy,
                   schema_calls, ext_others>>

\* `return structured_data`
ExtractReturn ==
    /\ ext_pc = "loop"
    /\ ext_i = Len(ext_urls)
    /\ ext_ret' = structured_data
    /\ ext_pc' = "returned"
    /\ UNCHANGED <<ext_urls, ext_i, structured_data, ext_log,
                   extraction_strategy, schema_calls, ext_configs, ext_others>>

ExtNext == ExtractLoop \/ ExtractRaise \/ ExtractReturn

ExtIdle ==
    /\ extraction_strategy = ExtractionStrategy("css", "static")
    /\ schema_calls = 0
    /\ ext_configs = <<>>
    /\ ext_urls = <<>>
    /\ ext_i = 0
    /\ structured_data = <<>>
    /\ ext_log = <<>>
    /\ ext_pc = "idle"
    /\ ext_ret = <<>>

-----------------------------------------------------------------------------
(* URLExtractorCrawler.extract and ScrollSearchStrategy.explore *)

NoSession == "<none>"         \* session_id = None

NoRunConfig == [given |-> FALSE, session_id |-> NoSession]

\* a CrawlerRunConfig the caller built; its session_id is None unless set
CrawlerRunConfig(sid) == [given |-> TRUE, session_id |-> sid]

CtorRunConfigs ==
    {NoRunConfig, CrawlerRunConfig("scroller"), CrawlerRunConfig(NoSession)}

\* `run_config or CrawlerRunConfig(session_id="session")`
SelfRunConfig(arg) == IF arg.given THEN arg ELSE CrawlerRunConfig("session")

\* the configuration of one crawler.arun call
LoadConfig(cfg) == [action |-> "load", session_id |-> cfg.session_id, js_only |-> FALSE]

create_scroll_config(sid) == [action |-> "scroll", session_id |-> sid, js_only |-> TRUE]

\* result.links["internal"]: each link is its href (None when the key is missing)
LinkLists ==
    { <<>>,
      <<Str(<<"a">>), Str(<<>>), None>>,
      <<Str(<<"a", "?", "b">>), Str(<<"b">>)>> }

PageResult(success, links) == [kind |-> "result", success |-> success, links |-> links]

NoResult == [kind |-> "unset", success |-> FALSE, links |-> <<>>]

PageRaises == [kind |-> "raise", success |-> FALSE, links |-> <<>>]

PageNone == [kind |-> "none", success |-> FALSE, links |-> <<>>]

PageOutcomes ==
    {PageRaises, PageNone} \cup {PageResult(ok, l) : ok \in BOOLEAN, l \in LinkLists}

\* a success test that looks only at whether a result came back
ResultNotNone(res) == res.kind = "result"

\* `result is not None and result.success`
is_successful_result(res) == res.kind = "result" /\ res.success

\* `[link["href"] for link in links if link.get("href")]`
extract_valid_internal_links(res) == SelectSeq(res.links, Truthy)

\* a loop that never looks at the clock
WhileConditionAlways(t, start, duration) == TRUE

\* a loop condition that compares the clock with the duration, not the
\* elapsed time
WhileConditionAbsolute(t, start, duration) == t < duration

\* a loop condition that lets the iteration at elapsed = duration through
WhileConditionInclusive(t, start, duration) == (t - start) <= duration

\* `(time.time() - start_time) < self.duration_seconds`
WhileCondition(t, start, duration) == (t - start) < duration

\* the chains extract is called with: the default URLSanitizerChain([]) and
\* the one of usage_example
ExtractChains ==
    {<<>>, <<QueryStrip, PrefixFilter(PREFIX), NoneFilter>>}

\* sanitize's cleaned_urls for a whole list
RECURSIVE CleanedUrls(_, _)
CleanedUrls(chain, urls) ==
    IF urls = <<>> THEN <<>>
    ELSE LET sanitized == sanitize_url(chain, Head(urls))
         IN (IF KeepsSanitized(sanitized) THEN <<sanitized>> ELSE <<>>)
                \o CleanedUrls(chain, Tail(urls))

CrInit ==
    /\ ctor_run_config \in CtorRunConfigs
    /\ run_config = SelfRunConfig(ctor_run_config)
    /\ session_id = SelfRunConfig(ctor_run_config).session_id
    /\ duration_seconds \in -1..MaxDuration
    /\ scroll_interval \in 0..MaxInterval
    /\ sanitizer \in ExtractChains
    /\ cr_pc = "start"
    /\ now = 0
    /\ start_time = 0
    /\ collected_links = <<>>
    /\ scroll_count = 0
    /\ result = NoResult
    /\ seed_result = NoResult
    /\ arun_log = <<>>
    /\ sleeps = 0
    /\ action_time = 0
    /\ cr_ret = <<>>

\* extract: `await self._load_page(url)`; the result of arun is dropped, an
\* exception leaves extract; otherwise explore starts and reads the clock.
LoadPage ==
    /\ cr_pc = "start"
    /\ arun_log' = Append(arun_log, LoadConfig(run_config))
    /\ \E res \in PageOutcomes, t \in 0..1 :
         /\ seed_result' = res
         /\ now' = now + t
         /\ start_time' = now + t
         /\ cr_pc' = IF res.kind = "raise" THEN "load_raised" ELSE "while"
    /\ UNCHANGED <<ctor_run_config, run_config, session_id, duration_seconds,
                   scroll_interval, sanitizer, collected_links, scroll_count,
                   result, sleeps, action_time, cr_ret, cr_others>>

\* the while test holds: _scroll_page issues the scroll action
ScrollPage ==
    /\ cr_pc = "while"
    /\ WhileCondition(now, start_time, duration_seconds)
    /\ scroll_count < MaxScrolls
    /\ arun_log' = Append(arun_log, create_scroll_config(session_id))
    /\ cr_pc' = "scrolling"
    /\ UNCHANGED <<ctor_run_config, run_config, session_id, duration_seconds,
                   scroll_interval, sanitizer, now, start_time, collected_links,
                   scroll_count, result, seed_result, sleeps, action_time,
                   cr_ret, cr_others>>

\* the scroll action ends after t ticks; explore harvests the links of a
\* successful result and starts the sleep
ScrollDone ==
    /\ cr_pc = "scrolling"
    /\ \E res \in PageOutcomes, t \in 0..MaxActionTime :
         /\ now' = now + t
         /\ action_time' = t
         /\ result' = res
         /\ cr_pc' = IF res.kind = "raise" THEN "scroll_raised" ELSE "sleeping"
         /\ collected_links' =
                IF res.kind # "raise" /\ is_successful_result(res)
                THEN collected_links \o extract_valid_internal_links(res)
                ELSE collected_links
    /\ UNCHANGED <<ctor_run_config, run_config, session_id, duration_seconds,
                   scroll_interval, sanitizer, start_time, scroll_count,
                   seed_result, arun_log, sleeps, cr_ret, cr_others>>

\* _post_scroll_wait: the sleep ends after scroll_interval
PostScrollWait ==
    /\ cr_pc = "sleeping"
    /\ now' = now + scroll_interval
    /\ sleeps' = sleeps + 1
    /\ scroll_count' = scroll_count + 1
    /\ result' = NoResult       \* overwritten before it is read again
    /\ cr_pc' = "while"
    /\ UNCHANGED <<ctor_run_config, run_config, session_id, duration_seconds,
                   scroll_interval, sanitizer, start_time, collected_links,
                   seed_result, arun_log, action_time, cr_ret, cr_others>>

\* the while test fails: explore returns collected_links, extract returns
\* sanitizer.sanitize(urls)
ExploreReturn ==
    /\ cr_pc = "while"
    /\ ~WhileCondition(now, start_time, duration_seconds)
    /\ cr_ret' \in SanitizeReturnValues(UniqueArgument(FALSE, FALSE),
                                        CleanedUrls(sanitizer, collected_links))
    /\ cr_pc' = "returned"
    /\ UNCHANGED <<ctor_run_config, run_config, session_id, duration_seconds,
                   scroll_interval, sanitizer, now, start_time, collected_links,
                   scroll_count, result, seed_result, arun_log, sleeps,
                   action_time, cr_others>>

CrNext == LoadPage \/ ScrollPage \/ ScrollDone \/ PostScrollWait \/ ExploreReturn

CrIdle ==
    /\ ctor_run_config = NoRunConfig
    /\ run_config = SelfRunConfig(NoRunConfig)
    /\ session_id = SelfRunConfig(NoRunConfig).session_id
    /\ duration_seconds = 0
    /\ scroll_interval = 0
    /\ sanitizer = <<>>
    /\ cr_pc = "idle"
    /\ now = 0
    /\ start_time = 0
    /\ collected_links = <<>>
    /\ scroll_count = 0
    /\ result = NoResult
    /\ seed_result = NoResult
    /\ arun_log = <<>>
    /\ sleeps = 0
    /\ action_time = 0
    /\ cr_ret = <<>>

-----------------------------------------------------------------------------
(* Two extract calls on one URLExtractorCrawler.  The calls are coroutines *)
(* of one event loop: a call runs until its next await, and while it waits *)
(* for crawler.arun or asyncio.sleep the other call may run.  Both read    *)
(* self.session_id and self.run_config of the instance they share.         *)

Callers == {"c1", "c2"}

\* the crawler.arun calls that were issued and have not yet returned
InFlight ==
    {[caller |-> c,
      action |-> IF cc_pc[c] = "loading" THEN "load" ELSE "scroll",
      session_id |-> cc_session_id] :
        c \in {d \in Callers : cc_pc[d] \in {"loading", "scrolling"}}}

CcInit ==
    /\ cc_session_id \in {SelfRunConfig(arg).session_id : arg \in CtorRunConfigs}
    /\ cc_duration \in 0..MaxDuration
    /\ cc_interval \in 0..MaxInterval
    /\ cc_now = 0
    /\ cc_pc = [c \in Callers |-> "not_called"]
    /\ cc_start = [c \in Callers |-> 0]
    /\ cc_wake = [c \in Callers |-> 0]

\* extract is called: _load_page issues crawler.arun and awaits it
CallExtract(c) ==
    /\ cc_pc[c] = "not_called"
    /\ cc_pc' = [cc_pc EXCEPT ![c] = "loading"]
    /\ UNCHANGED <<cc_session_id, cc_duration, cc_interval, cc_now, cc_start,
                   cc_wake, cc_others>>

\* the seed load returns or raises; explore starts and reads the clock
SeedLoadEnds(c) ==
    /\ cc_pc[c] = "loading"
    /\ \E raised \in BOOLEAN :
         cc_pc' = [cc_pc EXCEPT ![c] = IF raised THEN "raised" ELSE "while"]
    /\ cc_start' = [cc_start EXCEPT ![c] = cc_now]
    /\ UNCHANGED <<cc_session_id, cc_duration, cc_interval, cc_now, cc_wake,
                   cc_others>>

\* the while test holds: _scroll_page issues crawler.arun and awaits it
IssueScroll(c) ==
    /\ cc_pc[c] = "while"
    /\ WhileCondition(cc_now, cc_start[c], cc_duration)
    /\ cc_pc' = [cc_pc EXCEPT ![c] = "scrolling"]
    /\ UNCHANGED <<cc_session_id, cc_duration, cc_interval, cc_now, cc_start,
                   cc_wake, cc_others>>

\* the scroll action returns or raises; _post_scroll_wait starts the sleep
ScrollEnds(c) ==
    /\ cc_pc[c] = "scrolling"
    /\ \E raised \in BOOLEAN :
         cc_pc' = [cc_pc EXCEPT ![c] = IF raised THEN "raised" ELSE "sleeping"]
    /\ cc_wake' = [cc_wake EXCEPT ![c] = cc_now + cc_interval]
    /\ UNCHANGED <<cc_session_id, cc_duration, cc_interval, cc_now, cc_start,
                   cc_others>>

\* asyncio.sleep(scroll_interval) is over
SleepEnds(c) ==
    /\ cc_pc[c] = "sleeping"
    /\ cc_now >= cc_wake[c]
    /\ cc_pc' = [cc_pc EXCEPT ![c] = "while"]
    /\ UNCHANGED <<cc_session_id, cc_duration, cc_interval, cc_now, cc_start,
                   cc_wake, cc_others>>

\* the while test fails: explore and then extract return
CallReturns(c) ==
    /\ cc_pc[c] = "while"
    /\ ~WhileCondition(cc_now, cc_start[c], cc_duration)
    /\ cc_pc' = [cc_pc EXCEPT ![c] = "returned"]
    /\ UNCHANGED <<cc_session_id, cc_duration, cc_interval, cc_now, cc_start,
                   cc_wake, cc_others>>

\* the clock advances while the calls wait
ClockTick ==
    /\ cc_now < MaxClock
    /\ \E c \in Callers : cc_pc[c] \in {"loading", "scrolling", "sleeping"}
    /\ cc_now' = cc_now + 1
    /\ UNCHANGED <<cc_session_id, cc_duration, cc_interval, cc_pc, cc_start,
                   cc_wake, cc_others>>

CcNext ==
    \/ \E c \in Callers : CallExtract(c)
    \/ \E c \in Callers : SeedLoadEnds(c)
    \/ \E c \in Callers : IssueScroll(c)
    \/ \E c \in Callers : ScrollEnds(c)
    \/ \E c \in Callers : SleepEnds(c)
    \/ \E c \in Callers : CallReturns(c)
    \/ ClockTick

CcIdle ==
    /\ cc_session_id = SelfRunConfig(NoRunConfig).session_id
    /\ cc_duration = 0
    /\ cc_interval = 0
    /\ cc_now = 0
    /\ cc_pc = [c \in Callers |-> "idle"]
    /\ cc_start = [c \in Callers |-> 0]
    /\ cc_wake = [c \in Callers |-> 0]

-----------------------------------------------------------------------------
(* DeepSearchStrategy.explore.  The traversal itself is done by crawl4ai's *)
(* BestFirstCrawlingStrategy; explore hands it max_depth and max_pages and *)
(* reads the results it streams.                                           *)

PAGES == {"p1", "p2"}

\* one streamed result: result.success, hasattr(result, 'url'), result.url
StreamResult(success, has_url, url) ==
    [success |-> success, has_url |-> has_url, url |-> url]

DeepResults ==
    {StreamResult(ok, TRUE, u) : ok \in BOOLEAN, u \in PAGES}
        \cup {StreamResult(ok, FALSE, NoUrl) : ok \in BOOLEAN}

\* the CrawlerRunConfig explore builds
DeepCrawlConfig(sid, depth, pages) ==
    [action |-> "deep_crawl", session_id |-> sid, max_depth |-> depth,
     max_pages |-> pages, include_external |-> FALSE, stream |-> TRUE]

\* a test that appends the URL of every streamed result
DeepKeepsAny(res) == res.has_url

\* `if result.success and hasattr(result, 'url')`
DeepKeeps(res) == res.success /\ res.has_url

DsInit ==
    /\ max_depth \in {1, 2}
    /\ max_pages \in {1, 2}
    /\ ds_session_id \in {"session", NoSession}
    /\ ds_config = NoRunConfig
    /\ ds_stream = <<>>
    /\ ds_i = 0
    /\ extracted_links = <<>>
    /\ ds_pc = "start"
    /\ ds_ret = <<>>

\* `await crawler.arun(url=url, config=config)`: the call raises, or gives
\* the stream of results of the deep crawl
DeepArun ==
    /\ ds_pc = "start"
    /\ ds_config' = DeepCrawlConfig(ds_session_id, max_depth, max_pages)
    /\ \/ /\ ds_pc' = "raised"
          /\ ds_stream' = ds_stream
       \/ /\ ds_pc' = "streaming"
          /\ ds_stream' \in SeqsUpTo(DeepResults, MaxStream)
    /\ UNCHANGED <<max_depth, max_pages, ds_session_id, ds_i, extracted_links,
                   ds_ret, ds_others>>

\* one iteration of `async for result in ...`
DeepTake ==
    /\ ds_pc = "streaming"
    /\ ds_i < Len(ds_stream)
    /\ LET res == ds_stream[ds_i + 1]
       IN extracted_links' = IF DeepKeeps(res)
                             THEN Append(extracted_links, res.url)
                             ELSE extracted_links
    /\ ds_i' = ds_i + 1
    /\ UNCHANGED <<max_depth, max_pages, ds_session_id, ds_config, ds_stream,
                   ds_pc, ds_ret, ds_others>>

\* the stream raises instead of giving its next result
DeepStreamRaises ==
    /\ ds_pc = "streaming"
    /\ ds_pc' = "raised"
    /\ UNCHANGED <<max_depth, max_pages, ds_session_id, ds_config, ds_stream,
                   ds_i, extracted_links, ds_ret, ds_others>>

\* the stream is exhausted: `return extracted_links`
DeepReturn ==
    /\ ds_pc = "streaming"
    /\ ds_i = Len(ds_stream)
    /\ ds_ret' = extracted_links
    /\ ds_pc' = "returned"
    /\ UNCHANGED <<max_depth, max_pages, ds_session_id, ds_config, ds_stream,
                   ds_i, extracted_links, ds_others>>

DsNext == DeepArun \/ DeepTake \/ DeepStreamRaises \/ DeepReturn

DsIdle ==
    /\ max_depth = 3
    /\ max_pages = 100
    /\ ds_session_id = NoSession
    /\ ds_config = NoRunConfig
    /\ ds_stream = <<>>
    /\ ds_i = 0
    /\ extracted_links = <<>>
    /\ ds_pc = "idle"
    /\ ds_ret = <<>>

-----------------------------------------------------------------------------
(* The datetime sanitizers.  A date string is a sequence of tokens; a      *)
(* token is named after the strptime directive it is a text for ("%B" is a *)
(* full month name, "%Y," a year followed by a comma), "at" and "text" are *)
(* literal words, " " is whitespace at an end of the string, "GMT-4" is a  *)
(* time zone with an offset and "GMT" one without.                         *)

\* "%a, %B %d, %Y at %I:%M %p"
FULL_MONTH_FORMAT == <<"%a,", "%B", "%d,", "%Y", "at", "%I:%M", "%p">>

\* "%a, %b %d, %Y, %I:%M %p"
ABBREVIATED_MONTH_FORMAT == <<"%a,", "%b", "%d,", "%Y,", "%I:%M", "%p">>

\* only "%Y-%m-%d"
LLMFormatsDateOnly == << <<"%Y-%m-%d">> >>

\* ("%Y-%m-%d %H:%M:%S", "%Y-%m-%d")
LLM_FORMATS == << <<"%Y-%m-%d", "%H:%M:%S">>, <<"%Y-%m-%d">> >>

\* whether a token is a text for a directive; "May" is both the full and
\* the abbreviated name of its month
TokenMatches(tok, dir) ==
    \/ tok = dir
    \/ tok = "May" /\ dir \in {"%B", "%b"}

\* str.strip
RECURSIVE Strip(_)
Strip(s) ==
    IF s = <<>> THEN <<>>
    ELSE IF Head(s) = " " THEN Strip(Tail(s))
    ELSE IF s[Len(s)] = " " THEN Strip(SubSeq(s, 1, Len(s) - 1))
    ELSE s

\* re.sub(r"\sGMT[+-]?\d{1,4}", "", value): a zone with an offset is removed
ReSubGmt(s) == SelectSeq(s, LAMBDA tok : tok # "GMT-4")

Parsed(s) == [kind |-> "ok", exc |-> "", stamp |-> s]

Raised(exc) == [kind |-> "raise", exc |-> exc, stamp |-> <<>>]

\* datetime.strptime(s, fmt): the whole string must match the format
Strptime(s, fmt) ==
    IF Len(s) = Len(fmt) /\ \A k \in DOMAIN s : TokenMatches(s[k], fmt[k])
    THEN Parsed(s)
    ELSE Raised("ValueError")

FullMonthDatetimeSanitizer(value) ==
    Strptime(Strip(ReSubGmt(value)), FULL_MONTH_FORMAT)

AbbreviatedMonthDatetimeSanitizer(value) ==
    Strptime(Strip(ReSubGmt(value)), ABBREVIATED_MONTH_FORMAT)

\* the date strings handed to a chain
DATE_VALUES ==
    { <<"%a,", "%B", "%d,", "%Y", "at", "%I:%M", "%p", "GMT-4">>,
      <<"%a,", "May", "%d,", "%Y", "at", "%I:%M", "%p", "GMT">>,
      <<"%a,", "%b", "%d,", "%Y,", "%I:%M", "%p">>,
      <<"%a,", "May", "%d,", "%Y,", "%I:%M", "%p", " ">>,
      <<"text">> }

\* what llm_client.generate_response does: it raises, or it answers
NoReply == [raised |-> FALSE, asked |-> FALSE, answer |-> <<>>]

ClientRaises == [raised |-> TRUE, asked |-> TRUE, answer |-> <<>>]

Answer(s) == [raised |-> FALSE, asked |-> TRUE, answer |-> s]

LLM_ANSWERS ==
    { <<"%Y-%m-%d", "%H:%M:%S">>,
      <<"%Y-%m-%d">>,
      <<" ", "%Y-%m-%d", " ">>,
      <<"%Y-%m-%dT%H:%M:%S">>,
      <<"%Y-%m-%d", "text">>,
      <<"text">>,
      <<>> }

LLMReplies == {ClientRaises} \cup {Answer(s) : s \in LLM_ANSWERS}

\* the loop over the formats, from format k on
RECURSIVE ParseLLMResponse(_, _)
ParseLLMResponse(response, k) ==
    IF k > Len(LLM_FORMATS) THEN Raised("ValueError")
    ELSE LET r == Strptime(Strip(response), LLM_FORMATS[k])
         IN IF r.kind = "ok" THEN r ELSE ParseLLMResponse(response, k + 1)

LLMBasedDateSanitizer(reply) ==
    IF reply.raised THEN Raised("ClientError")
    ELSE ParseLLMResponse(reply.answer, 1)

\* the sanitizer objects a chain is built from
DT_SANITIZERS == {"full", "abbr", "llm"}

DT_CHAINS == SeqsUpTo(DT_SANITIZERS, MaxDtChain)

\* what the collaborator may do when sanitizer h is called
RepliesFor(h) == IF h = "llm" THEN LLMReplies ELSE {NoReply}

\* sanitizer.sanitize(value), dispatched on the sanitizer's class
DatetimeSanitize(h, value, reply) ==
    CASE h = "full" -> FullMonthDatetimeSanitizer(value)
      [] h = "abbr" -> AbbreviatedMonthDatetimeSanitizer(value)
      [] h = "llm" -> LLMBasedDateSanitizer(reply)

\* an `except ValueError` clause
CatchesValueErrorOnly(outcome) == outcome.kind = "raise" /\ outcome.exc = "ValueError"

\* `except Exception as e`
CatchesException(outcome) == outcome.kind = "raise"

DtInit ==
    /\ dt_sanitizers \in DT_CHAINS
    /\ dt_value \in DATE_VALUES
    /\ dt_i = 0
    /\ dt_calls = <<>>
    /\ last_exception = NoReply
    /\ dt_pc = "loop"
    /\ dt_ret = NoReply

\* one iteration of `for sanitizer in self.sanitizers`: the sanitizer's
\* result is returned, or its exception is caught and the loop goes on; an
\* exception the except clause does not catch leaves the call
TrySanitizer ==
    /\ dt_pc = "loop"
    /\ dt_i < Len(dt_sanitizers)
    /\ \E reply \in RepliesFor(dt_sanitizers[dt_i + 1]) :
         LET outcome == DatetimeSanitize(dt_sanitizers[dt_i + 1], dt_value, reply)
         IN /\ dt_calls' = Append(dt_calls,
                                  [handler |-> dt_i + 1,
                                   sanitizer |-> dt_sanitizers[dt_i + 1],
                                   reply |-> reply,
                                   outcome |-> outcome])
            /\ IF outcome.kind = "ok"
               THEN /\ dt_pc' = "returned"
                    /\ dt_ret' = outcome
                    /\ UNCHANGED last_exception
               ELSE IF CatchesException(outcome)
               THEN /\ last_exception' = outcome
                    /\ UNCHANGED <<dt_pc, dt_ret>>
               ELSE /\ dt_pc' = "raised"
                    /\ dt_ret' = outcome
                    /\ UNCHANGED last_exception
    /\ dt_i' = dt_i + 1
    /\ UNCHANGED <<dt_sanitizers, dt_value, dt_others>>

\* the loop is over: `raise ValueError(...) from last_exception`
RaiseNoSanitizer ==
    /\ dt_pc = "loop"
    /\ dt_i = Len(dt_sanitizers)
    /\ dt_pc' = "raised"
    /\ dt_ret' = Raised("ValueError")
    /\ UNCHANGED <<dt_sanitizers, dt_value, dt_i, dt_calls, last_exception,
                   dt_others>>

DtNext == TrySanitizer \/ RaiseNoSanitizer

DtIdle ==
    /\ dt_sanitizers = <<>>
    /\ dt_value = <<>>
    /\ dt_i = 0
    /\ dt_calls = <<>>
    /\ last_exception = NoReply
    /\ dt_pc = "idle"
    /\ dt_ret = NoReply

-----------------------------------------------------------------------------
(* Inserter.insert_documents (src/finsight/retriever/agent/inserter.py)    *)
(*                                                                         *)
(* A document is a dict, modelled as a function from its keys to their     *)
(* values.  The UUID generate_uuid5 derives from a dict is a function of    *)
(* the dict's content only, so it is modelled as that dict.  The Weaviate   *)
(* collection and the dynamic batch are the external collaborators: the    *)
(* batch sends what was added to it at moments of its own choosing and     *)
(* sends the rest when the with block is left; the collection keeps one    *)
(* object per UUID, the last one sent.                                     *)

DOC_URLS == {"u1", "u2"}

DOC_ARTICLES == {"a1", "a2"}

\* the dicts handed in as documents
DOCUMENTS == [url : DOC_URLS, full_article : DOC_ARTICLES]

\* a document that is not a dict
NotADict == [type |-> "str"]

\* properties=None
NoProperties == [none |-> TRUE]

\* the summary the language model writes for an article
SummaryOf(article) == <<"summary of", article>>

UUID_PROPERTIES == {<<"url">>, <<"url", "full_article">>}

\* _validate_document_type: anything but a dict raises ValueError
ValidDocumentType(document) == document # NotADict

\* _generate_uuid: generate_uuid5 over {prop: document[prop]}
GenerateUuid(document, props) == [p \in Range(props) |-> document[p]]

\* collection.query.fetch_object_by_id: the object or None
FetchObjectById(objects, obj_uuid) == {o \in objects : o.uuid = obj_uuid}

\* _object_exists: obj is not None, and False when the fetch raised
ObjectExists(objects, obj_uuid, fetch_raises) ==
    IF fetch_raises THEN FALSE ELSE FetchObjectById(objects, obj_uuid) # {}

\* _summarize: document["summary"] is set when generate_response answers;
\* when it raises the error is printed and the document is returned as is
Summarize(document, llm_raises) ==
    IF llm_raises
    THEN document
    ELSE [k \in DOMAIN document \cup {"summary"} |->
            IF k = "summary"
            THEN SummaryOf(document["full_article"])
            ELSE document[k]]

\* document = self._summarize(document) if summarize else None
PropertiesArgument(document, flag, llm_raises) ==
    IF flag THEN Summarize(document, llm_raises) ELSE NoProperties

\* the collection after one object was sent to it
Upsert(objects, obj) == {o \in objects : o.uuid # obj.uuid} \cup {obj}

RECURSIVE UpsertAll(_, _)
UpsertAll(objects, pending) ==
    IF pending = <<>>
    THEN objects
    ELSE UpsertAll(Upsert(objects, Head(pending)), Tail(pending))

InsInit ==
    /\ ins_documents \in
         UNION {[1..n -> DOCUMENTS \cup {NotADict}] : n \in 0..MaxDocs}
    /\ uuid_properties \in UUID_PROPERTIES
    /\ summarize \in BOOLEAN
    /\ collection \in
         {{}} \cup {{[uuid |-> GenerateUuid(d, uuid_properties),
                      properties |-> d]} : d \in DOCUMENTS}
    /\ batch = <<>>
    /\ ins_added = <<>>
    /\ ins_i = 0
    /\ ins_pc = "loop"
    /\ fetch_errors = 0

\* the document the for loop takes next
NextDocument == ins_documents[ins_i + 1]

InLoop == ins_pc = "loop" /\ ins_i < Len(ins_documents)

\* _validate_document_type raises ValueError out of the with block; what
\* the batch does with the objects it still holds is the library's choice
InsertRaise ==
    /\ InLoop
    /\ ~ValidDocumentType(NextDocument)
    /\ ins_pc' = "raised"
    /\ \E sent \in BOOLEAN :
         /\ collection' =
              IF sent THEN UpsertAll(collection, batch) ELSE collection
         /\ batch' = IF sent THEN <<>> ELSE batch
    /\ UNCHANGED <<ins_documents, uuid_properties, summarize, ins_added,
                   ins_i, fetch_errors, ins_others>>

\* if self._object_exists(obj_uuid): print [SKIP]; continue
InsertSkip ==
    /\ InLoop
    /\ ValidDocumentType(NextDocument)
    /\ ObjectExists(collection,
                    GenerateUuid(NextDocument, uuid_properties), FALSE)
    /\ ins_i' = ins_i + 1
    /\ UNCHANGED <<ins_documents, uuid_properties, summarize, collection,
                   batch, ins_added, ins_pc, fetch_errors, ins_others>>

\* the object is not found, or the fetch raised: batch.add_object
InsertAdd ==
    /\ InLoop
    /\ ValidDocumentType(NextDocument)
    /\ \E fetch_raises \in BOOLEAN, llm_raises \in BOOLEAN :
         LET obj_uuid == GenerateUuid(NextDocument, uuid_properties)
             obj == [uuid |-> obj_uuid,
                     properties |->
                        PropertiesArgument(NextDocument, summarize, llm_raises)]
         IN /\ ~ObjectExists(collection, obj_uuid, fetch_raises)
            /\ llm_raises => summarize
            /\ fetch_errors' = fetch_errors + (IF fetch_raises THEN 1 ELSE 0)
            /\ batch' = Append(batch, obj)
            /\ ins_added' =
                 Append(ins_added,
                        [uuid |-> obj_uuid,
                         properties |-> obj.properties,
                         document |-> NextDocument,
                         existed |->
                            ObjectExists(collection, obj_uuid, FALSE)])
    /\ ins_i' = ins_i + 1
    /\ UNCHANGED <<ins_documents, uuid_properties, summarize, collection,
                   ins_pc, ins_others>>

\* the dynamic batch sends its oldest object while the loop runs
BatchSend ==
    /\ ins_pc = "loop"
    /\ batch # <<>>
    /\ collection' = Upsert(collection, Head(batch))
    /\ batch' = Tail(batch)
    /\ UNCHANGED <<ins_documents, uuid_properties, summarize, ins_added,
                   ins_i, ins_pc, fetch_errors, ins_others>>

\* the for loop is over: the with block is left and the batch sends the rest
InsertReturn ==
    /\ ins_pc = "loop"
    /\ ins_i = Len(ins_documents)
    /\ collection' = UpsertAll(collection, batch)
    /\ batch' = <<>>
    /\ ins_pc' = "returned"
    /\ UNCHANGED <<ins_documents, uuid_properties, summarize, ins_added,
                   ins_i, fetch_errors, ins_others>>

InsNext ==
    InsertRaise \/ InsertSkip \/ InsertAdd \/ BatchSend \/ InsertReturn

InsIdle ==
    /\ ins_documents = <<>>
    /\ uuid_properties = <<"url">>
    /\ summarize = FALSE
    /\ collection = {}
    /\ batch = <<>>
    /\ ins_added = <<>>
    /\ ins_i = 0
    /\ ins_pc = "idle"
    /\ fetch_errors = 0

-----------------------------------------------------------------------------
(* The assistant (src/finsight/assistant.py)                               *)
(*                                                                         *)
(* Amounts are counted in cents: the code rounds every amount to two       *)
(* decimals.  The text of a news item is the set of words of its title and *)
(* summary.  A chat turn is one stream_from_agent call; inside it the      *)
(* language model calls the tools of the agent in the order it likes.      *)

\* the keys of Portafolio.activos, in the dict's order
SECTOR_ORDER ==
    <<"EquityTech Fund", "GreenEnergy ETF", "HealthBio Stocks",
      "Global Bonds Fund", "CryptoIndex", "RealEstate REIT",
      "Emerging Markets Fund", "AI & Robotics ETF", "Commodities Basket",
      "Cash Reserve">>

SECTORS == Range(SECTOR_ORDER)

SECTOR_KEYWORDS ==
    [sector \in SECTORS |->
        CASE sector = "EquityTech Fund" ->
                {"tecnología", "software", "nube", "hardware"}
          [] sector = "GreenEnergy ETF" ->
                {"energía renovable", "solar", "eólica", "verde"}
          [] sector = "HealthBio Stocks" ->
                {"salud", "biotecnología", "farmacéutica"}
          [] sector = "Global Bonds Fund" ->
                {"bonos", "deuda", "gubernamental"}
          [] sector = "CryptoIndex" ->
                {"criptomonedas", "bitcoin", "ethereum", "cripto"}
          [] sector = "RealEstate REIT" ->
                {"inmobiliaria", "propiedades", "REIT"}
          [] sector = "Emerging Markets Fund" ->
                {"mercados emergentes", "economías en desarrollo"}
          [] sector = "AI & Robotics ETF" ->
                {"inteligencia artificial", "IA", "robótica"}
          [] sector = "Commodities Basket" ->
                {"materias primas", "oro", "commodities"}
          [] OTHER -> {}]

\* Propuesta(): activos is the empty dict
PropuestaVacia == [sector \in {} |-> 0]

\* Portafolio(): the default activos
PortafolioInicial ==
    [sector \in SECTORS |->
        CASE sector = "EquityTech Fund" -> 200000
          [] sector = "GreenEnergy ETF" -> 150000
          [] sector \in {"AI & Robotics ETF", "Commodities Basket",
                         "Cash Reserve"} -> 50000
          [] OTHER -> 100000]

\* Propuesta.esta_vacia that never answers True
EstaVaciaNever(activos) == FALSE

\* Propuesta.esta_vacia: not bool(self.activos)
EstaVacia(activos) == DOMAIN activos = {}

\* resumen(): one "activo: $monto" line per key, in the dict's order
Resumen(activos) ==
    LET keys == SelectSeq(SECTOR_ORDER, LAMBDA sector : sector \in DOMAIN activos)
    IN [k \in 1..Len(keys) |-> <<keys[k], activos[keys[k]]>>]

\* str.lower() on the words the news of the model use
Lower(word) ==
    CASE word = "IA" -> "ia"
      [] word = "REIT" -> "reit"
      [] OTHER -> word

\* what deps.search(motivo) may return
SEARCH_RESULTS ==
    {<<>>,
     <<{"clima"}>>,
     <<{"software"}>>,
     <<{"IA", "REIT"}>>,
     <<{"software", "bitcoin"}, {"bitcoin"}>>}

\* any(re.search(rf"\b{kw}\b", texto) for kw in keywords) on the lowered text
Mentions(noticia, sector) ==
    \E kw \in SECTOR_KEYWORDS[sector] : kw \in {Lower(word) : word \in noticia}

\* sentimiento_por_sector[sector]: one point per news item that mentions it
Sentimiento(noticias, sector) ==
    Cardinality({k \in DOMAIN noticias : Mentions(noticias[k], sector)})

RECURSIVE SumOver(_, _, _)
SumOver(f, keys, k) ==
    IF k > Len(keys) THEN 0 ELSE f[keys[k]] + SumOver(f, keys, k + 1)

\* round(x, 2) of the quotient n / d, in cents
RoundDiv(n, d) == (2 * n + d) \div (2 * d)

\* the dict nuevo_portafolio before the difference is added
Pesos(noticias) ==
    LET puntaje == [sector \in SECTORS |-> Sentimiento(noticias, sector)]
        total_puntaje == SumOver(puntaje, SECTOR_ORDER, 1)
        con_puntaje == Cardinality({sector \in SECTORS : puntaje[sector] > 0})
        \* ten times total_puntaje + 0.1 * (10 - len(sentimiento_por_sector))
        divisor == 10 * total_puntaje + (10 - con_puntaje)
    IN [sector \in SECTORS |->
           RoundDiv((IF puntaje[sector] > 0 THEN 10 * puntaje[sector] ELSE 1)
                       * 1000000,
                    divisor)]

\* max(nuevo_portafolio, key=nuevo_portafolio.get): the first largest key
SectorAjustado(nuevo) ==
    LET k == CHOOSE i \in DOMAIN SECTOR_ORDER :
                 /\ \A j \in DOMAIN SECTOR_ORDER :
                        nuevo[SECTOR_ORDER[j]] <= nuevo[SECTOR_ORDER[i]]
                 /\ \A j \in 1..(i - 1) :
                        nuevo[SECTOR_ORDER[j]] < nuevo[SECTOR_ORDER[i]]
    IN SECTOR_ORDER[k]

\* nuevo_portafolio as optimizar_portafolio stores it
NuevoPortafolio(noticias) ==
    LET nuevo == Pesos(noticias)
        diferencia == 1000000 - SumOver(nuevo, SECTOR_ORDER, 1)
    IN [nuevo EXCEPT ![SectorAjustado(nuevo)] = @ + diferencia]

\* the two early returns of optimizar_portafolio
SinImpacto(noticias) ==
    \/ noticias = <<>>
    \/ \A sector \in SECTORS : Sentimiento(noticias, sector) = 0

AsInit ==
    /\ portafolio = PortafolioInicial
    /\ propuesta = PropuestaVacia
    /\ as_pc = "idle"
    /\ as_turn = 0
    /\ as_calls = <<>>
    /\ as_shown = <<>>

\* stream_from_agent builds deps = ContextoFinanciero(searcher, Portafolio())
\* and hands it to agent.run_stream together with the message history
TurnStarts ==
    /\ as_pc = "idle"
    /\ as_turn < MaxTurns
    /\ as_turn' = as_turn + 1
    /\ portafolio' = PortafolioInicial
    /\ propuesta' = PropuestaVacia
    /\ as_pc' = "turn"
    /\ UNCHANGED <<as_calls, as_shown, as_others>>

\* the run is over and past_messages is updated
TurnEnds ==
    /\ as_pc = "turn"
    /\ as_pc' = "idle"
    /\ UNCHANGED <<portafolio, propuesta, as_turn, as_calls, as_shown,
                   as_others>>

ToolCall(tool, stored, applied) ==
    [turn |-> as_turn, tool |-> tool, stored |-> stored, applied |-> applied]

CanCall == as_pc = "turn" /\ Len(as_calls) < MaxToolCalls

\* buscar_noticias only reads deps.search and formats its answer
BuscarNoticias ==
    /\ CanCall
    /\ as_calls' =
         Append(as_calls, ToolCall("buscar_noticias", PropuestaVacia, FALSE))
    /\ UNCHANGED <<portafolio, propuesta, as_pc, as_turn, as_shown, as_others>>

\* ver_portafolio returns deps.portafolio.resumen()
VerPortafolio ==
    /\ CanCall
    /\ as_shown' = Resumen(portafolio)
    /\ as_calls' =
         Append(as_calls, ToolCall("ver_portafolio", PropuestaVacia, FALSE))
    /\ UNCHANGED <<portafolio, propuesta, as_pc, as_turn, as_others>>

OptimizarPortafolio ==
    /\ CanCall
    /\ \E noticias \in SEARCH_RESULTS :
         IF SinImpacto(noticias)
         THEN /\ propuesta' = propuesta
              /\ as_calls' =
                   Append(as_calls,
                          ToolCall("optimizar_portafolio", PropuestaVacia,
                                   FALSE))
         ELSE /\ propuesta' =
                   [sector \in DOMAIN portafolio |->
                       NuevoPortafolio(noticias)[sector]]
              /\ as_calls' =
                   Append(as_calls,
                          ToolCall("optimizar_portafolio", propuesta', FALSE))
    /\ UNCHANGED <<portafolio, as_pc, as_turn, as_shown, as_others>>

ConfirmarRedistribucion ==
    /\ CanCall
    /\ IF EstaVacia(propuesta)
       THEN UNCHANGED <<portafolio, propuesta>>
       ELSE /\ portafolio' = propuesta
            /\ propuesta' = PropuestaVacia
    /\ as_calls' =
         Append(as_calls,
                ToolCall("confirmar_redistribucion", PropuestaVacia,
                         ~EstaVacia(propuesta)))
    /\ UNCHANGED <<as_pc, as_turn, as_shown, as_others>>

CancelarRedistribucion ==
    /\ CanCall
    /\ propuesta' = IF EstaVacia(propuesta) THEN propuesta ELSE PropuestaVacia
    /\ as_calls' =
         Append(as_calls,
                ToolCall("cancelar_redistribucion", PropuestaVacia, FALSE))
    /\ UNCHANGED <<portafolio, as_pc, as_turn, as_shown, as_others>>

AsNext ==
    \/ TurnStarts
    \/ TurnEnds
    \/ BuscarNoticias
    \/ VerPortafolio
    \/ OptimizarPortafolio
    \/ ConfirmarRedistribucion
    \/ CancelarRedistribucion

AsIdle ==
    /\ portafolio = PortafolioInicial
    /\ propuesta = PropuestaVacia
    /\ as_pc = "off"
    /\ as_turn = 0
    /\ as_calls = <<>>
    /\ as_shown = <<>>

-----------------------------------------------------------------------------
(* SchemaManager (src/finsight/retriever/client/interface.py)              *)
(*                                                                         *)
(* client.collections is the external collaborator: it keeps one           *)
(* collection per name, refuses to create a name it already holds, and     *)
(* deletes a name it does not hold without complaint.                      *)

COLLECTION_NAMES == {"News", "Docs"}

\* the `properties` argument of create_collection
PROPERTY_LISTS == {<<"title">>, <<"title", "url">>}

Collection(name, properties) == [name |-> name, properties |-> properties]

\* every state the Weaviate instance can be in: at most one collection a name
COLLECTION_STATES ==
    {cols \in SUBSET [name : COLLECTION_NAMES, properties : PROPERTY_LISTS] :
        \A a, b \in cols : a.name = b.name => a = b}

\* client.collections.exists that always answers False
CollectionExistsNever(cols, name) == FALSE

\* client.collections.exists(name)
CollectionExists(cols, name) == \E c \in cols : c.name = name

\* client.collections.create: the new state, or the error for a name held
CollectionsCreate(cols, name, properties) ==
    IF \E c \in cols : c.name = name
    THEN [collections |-> cols, raised |-> TRUE]
    ELSE [collections |-> cols \cup {Collection(name, properties)},
          raised |-> FALSE]

\* client.collections.delete
CollectionsDelete(cols, name) == {c \in cols : c.name # name}

SmInit ==
    /\ collections \in COLLECTION_STATES
    /\ sm_log = <<>>
    /\ sm_pc = "ready"

SmCall(op, name, cols) ==
    [op |-> op, name |-> name, existed |-> \E c \in cols : c.name = name]

CanCallSchema == sm_pc = "ready" /\ Len(sm_log) < MaxSchemaCalls

\* create_collection(name, properties)
CreateCollection ==
    /\ CanCallSchema
    /\ \E name \in COLLECTION_NAMES, properties \in PROPERTY_LISTS :
         /\ sm_log' = Append(sm_log, SmCall("create", name, collections))
         /\ IF CollectionExists(collections, name)
            THEN UNCHANGED <<collections, sm_pc>>
            ELSE LET created == CollectionsCreate(collections, name, properties)
                 IN /\ collections' = created.collections
                    /\ sm_pc' = IF created.raised THEN "raised" ELSE sm_pc
    /\ UNCHANGED sm_others

\* delete_collection(name)
DeleteCollection ==
    /\ CanCallSchema
    /\ \E name \in COLLECTION_NAMES :
         /\ sm_log' = Append(sm_log, SmCall("delete", name, collections))
         /\ IF ~CollectionExists(collections, name)
            THEN UNCHANGED collections
            ELSE collections' = CollectionsDelete(collections, name)
    /\ UNCHANGED <<sm_pc, sm_others>>

SmNext == CreateCollection \/ DeleteCollection

SmIdle ==
    /\ collections = {}
    /\ sm_log = <<>>
    /\ sm_pc = "idle"

-----------------------------------------------------------------------------
(* Specifications *)

OldIdle == SanIdle /\ ExtIdle /\ CrIdle /\ CcIdle /\ DsIdle /\ DtIdle

InitSanitizer == SanInit /\ ExtIdle /\ CrIdle /\ CcIdle /\ DsIdle /\ DtIdle /\ InsIdle /\ AsIdle /\ SmIdle

SpecSanitizer == InitSanitizer /\ [][SanNext]_vars

InitExtractor == ExtInit /\ SanIdle /\ CrIdle /\ CcIdle /\ DsIdle /\ DtIdle /\ InsIdle /\ AsIdle /\ SmIdle

SpecExtractor == InitExtractor /\ [][ExtNext]_vars

InitCrawler == CrInit /\ SanIdle /\ ExtIdle /\ CcIdle /\ DsIdle /\ DtIdle /\ InsIdle /\ AsIdle /\ SmIdle

SpecCrawler == InitCrawler /\ [][CrNext]_vars

\* The extract call is a coroutine the event loop keeps resuming: every
\* await on crawler.arun or asyncio.sleep comes back.
\* Here extract is called on an instance built without a run configuration,
\* with its default sanitizer.
InitCrawlerFair ==
    /\ InitCrawler
    /\ ctor_run_config = NoRunConfig
    /\ sanitizer = <<>>

SpecCrawlerFair == InitCrawlerFair /\ [][CrNext]_vars /\ WF_vars(CrNext)

InitConcurrent == CcInit /\ SanIdle /\ ExtIdle /\ CrIdle /\ DsIdle /\ DtIdle /\ InsIdle /\ AsIdle /\ SmIdle

SpecConcurrent == InitConcurrent /\ [][CcNext]_vars

InitDeepSearch == DsInit /\ SanIdle /\ ExtIdle /\ CrIdle /\ CcIdle /\ DtIdle /\ InsIdle /\ AsIdle /\ SmIdle

SpecDeepSearch == InitDeepSearch /\ [][DsNext]_vars

InitDatetime == DtInit /\ SanIdle /\ ExtIdle /\ CrIdle /\ CcIdle /\ DsIdle /\ InsIdle /\ AsIdle /\ SmIdle

SpecDatetime == InitDatetime /\ [][DtNext]_vars

InitInserter == InsInit /\ AsIdle /\ SmIdle /\ OldIdle

SpecInserter == InitInserter /\ [][InsNext]_vars

InitAssistant == AsInit /\ InsIdle /\ SmIdle /\ OldIdle

SpecAssistant == InitAssistant /\ [][AsNext]_vars

InitSchemaManager == SmInit /\ InsIdle /\ AsIdle /\ OldIdle

SpecSchemaManager == InitSchemaManager /\ [][SmNext]_vars

-----------------------------------------------------------------------------
(* Properties of URLSanitizerChain.sanitize *)

HasPrefixSanitizer(chain) == \E k \in DOMAIN chain : chain[k].kind = "prefix"

\* C1: the list sanitize returns holds no None and no empty string, and,
\* when a PrefixSanitizer is in the chain, no URL that does not start with
\* its prefix -- for every chain, the empty one included.
C1_NoNullNoEmptyNoRejected ==
    san_pc = "returned" =>
        \A k \in DOMAIN san_ret :
            /\ san_ret[k] # None
            /\ san_ret[k].chars # <<>>
            /\ HasPrefixSanitizer(sanitizers) => StartsWith(san_ret[k].chars, PREFIX)

\* C2: with unique = TRUE sanitize returns each surviving URL exactly once;
\* with unique = FALSE it returns every surviving URL, duplicates included,
\* in input order.
C2_UniqueDeduplicates ==
    san_pc = "returned" /\ unique_given =>
        IF unique
        THEN Injective(san_ret) /\ Range(san_ret) = Range(cleaned_urls)
        ELSE san_ret = cleaned_urls

\* The part of a string before its first "?" (the whole string without one).
BeforeQuery(s) ==
    LET qs == {k \in DOMAIN s : s[k] = "?"}
    IN IF qs = {} THEN s
       ELSE SubSeq(s, 1, (CHOOSE k \in qs : \A m \in qs : k <= m) - 1)

\* What the chain [query-strip, prefix-filter(P)] is to make of a list of
\* URLs: a URL that starts with P gives the URL cut at its first "?", any
\* other URL gives nothing.
RECURSIVE StripThenFilter(_, _)
StripThenFilter(p, urls) ==
    IF urls = <<>> THEN <<>>
    ELSE LET u == Head(urls)
         IN (IF ~u.none /\ StartsWith(u.chars, p)
             THEN <<Str(BeforeQuery(u.chars))>>
             ELSE <<>>) \o StripThenFilter(p, Tail(urls))

EndsWithNone(calls) == calls # <<>> /\ calls[Len(calls)].out = None

\* C14: for each URL the sanitizers are called in list order, each on the
\* output of the one before, and a sanitizer that returns None is the last
\* one called for that URL; such a URL adds nothing to the output, and the
\* URLs after it are still processed.
C14_ShortCircuit ==
    /\ Len(san_calls) = san_i
    /\ \A j \in DOMAIN san_calls :
           LET calls == san_calls[j]
           IN /\ Len(calls) <= Len(sanitizers)
              /\ sanitizers # <<>> => calls # <<>>
              /\ \A c \in DOMAIN calls :
                     /\ calls[c].handler = c
                     /\ calls[c].arg = IF c = 1 THEN san_urls[j] ELSE calls[c - 1].out
                     /\ calls[c].out = None => c = Len(calls)
              /\ ~EndsWithNone(calls) => Len(calls) = Len(sanitizers)
    /\ Len(cleaned_urls) =
           Cardinality({j \in DOMAIN san_calls :
                           /\ ~EndsWithNone(san_calls[j])
                           /\ ~(sanitizers = <<>> /\ san_urls[j] = None)})
    /\ san_pc = "returned" => san_i = Len(san_urls)

C14_Witness ==
    /\ san_pc = "returned"
    /\ Len(sanitizers) = 2
    /\ Len(san_urls) = 2
    /\ Len(san_calls[1]) = 1
    /\ EndsWithNone(san_calls[1])
    /\ Len(san_calls[2]) = 2
    /\ ~EndsWithNone(san_calls[2])
    /\ Len(cleaned_urls) = 1

C22_SanitizersNeverRaise ==
    /\ \A h \in SANITIZERS, url \in URLS : ~HandlerRaises(h, url)
    /\ san_pc # "raised"

C22_Witness ==
    /\ san_pc = "returned"
    /\ san_pass = 1
    /\ sanitizers = <<QueryStrip, PrefixFilter(PREFIX)>>
    /\ san_urls = <<None, Str(<<>>), Str(<<"a", "?", "b">>)>>
    /\ cleaned_urls = <<Str(<<"a">>)>>

\* C16: sanitize, called with unique = TRUE on the list an earlier call with
\* the same chain and unique = TRUE returned, returns the same set of URLs.
C16_Idempotent ==
    san_pc = "returned" /\ san_pass = 2 /\ unique_given /\ unique =>
        Range(san_ret) = Range(san_first)

-----------------------------------------------------------------------------
(* Properties of StructuredExtractor.extract *)

Origins(data) == {data[k].origin : k \in DOMAIN data}

\* C3: every record collected (and so every record returned) was parsed
\* from the extracted content of a result with success = TRUE; a URL whose
\* result has success = FALSE contributes no record.
C3_OnlySuccessfulMerged ==
    /\ \A k \in DOMAIN structured_data :
          LET r == structured_data[k]
          IN /\ r.origin \in DOMAIN ext_log
             /\ ext_log[r.origin].kind = "result"
             /\ ext_log[r.origin].success
             /\ ext_log[r.origin].content.json = "array"
             /\ r.idx \in 1..ext_log[r.origin].content.n
    /\ ext_pc = "returned" => ext_ret = structured_data

\* Three URLs, the second fails to load although it carries content: the
\* returned records come from URLs 1 and 3 only.
C3_Witness ==
    /\ ext_pc = "returned"
    /\ Len(ext_urls) = 3
    /\ ext_log[2] = CrawlResult(FALSE, ArrayContent(1))
    /\ Origins(ext_ret) = {1, 3}

\* C4: extract never aborts the batch because of one URL: whatever arun
\* gives for a URL, the later URLs are still fetched and extract returns.
C4_NeverAborts ==
    IF ext_i < Len(ext_urls)
    THEN ext_pc = "loop"
    ELSE ext_pc \in {"loop", "returned"}

\* C5: every record appended to the output carries a `url` field equal to
\* the URL of the page it was extracted from.
C5_EveryRecordStamped ==
    \A k \in DOMAIN structured_data :
        structured_data[k].url = ext_urls[structured_data[k].origin]

\* C6: a successful fetch whose extracted content is not valid JSON is
\* skipped: it contributes no record and the loop goes on to the next URL.
C6_ParseFailureSkipped ==
    \A i \in DOMAIN ext_log :
        (ext_log[i].kind = "result" /\ ext_log[i].success
            /\ ext_log[i].content.json = "invalid")
        => (ext_pc # "raised" /\ i \notin Origins(structured_data))

\* C21: within one batch every arun call is handed the one strategy object
\* the extractor was built with, one call per URL taken, and the batch
\* generates no schema: the only generate_schema call is the one that built
\* an inferred schema before the batch.
C21_OneStrategyOneSchema ==
    /\ Len(ext_configs) = ext_i
    /\ \A k \in DOMAIN ext_configs : ext_configs[k] = extraction_strategy
    /\ schema_calls = SchemaCallsOf(extraction_strategy)
    /\ schema_calls <= 1

C21_Witness ==
    /\ ext_pc = "returned"
    /\ Len(ext_urls) >= 2
    /\ Len(ext_configs) = Len(ext_urls)
    /\ extraction_strategy = ExtractionStrategy("css", "inferred")
    /\ schema_calls = 1

\* C28: a successful fetch whose extracted content is the empty JSON array
\* contributes no record and does not abort the batch.
C28_EmptyArraySkipped ==
    \A i \in DOMAIN ext_log :
        ext_log[i] = CrawlResult(TRUE, ArrayContent(0))
        => (ext_pc # "raised" /\ i \notin Origins(structured_data))

-----------------------------------------------------------------------------
(* Properties of ScrollSearchStrategy.explore and URLExtractorCrawler.extract *)

Overrun == (now - start_time) - duration_seconds

\* C7 as stated: when explore returns, the time spent inside it exceeds the
\* configured duration by at most one scroll_interval, whatever the scroll
\* actions take.
C7_OverrunAtMostInterval == cr_pc = "returned" => Overrun <= scroll_interval

\* C7 amended: the time spent inside explore exceeds the configured duration
\* by less than the time of the last scroll action plus one scroll_interval
\* (by less than the time of the last scroll action when that action raised);
\* with no scroll action issued no time is spent.
C7_OverrunBelowActionPlusInterval ==
    /\ cr_pc = "returned" =>
          IF scroll_count = 0
          THEN now = start_time
          ELSE Overrun < action_time + scroll_interval
    /\ cr_pc = "scroll_raised" => Overrun < action_time

\* explore returned after a last scroll action that took time, and the
\* overrun is the largest the amended bound allows: more than scroll_interval
C7_Witness ==
    /\ cr_pc = "returned"
    /\ scroll_count > 0
    /\ action_time = MaxActionTime
    /\ Overrun = action_time + scroll_interval - 1
    /\ Overrun > scroll_interval

ScrollsIssued == Len(SelectSeq(arun_log, LAMBDA c : c.action = "scroll"))

NonEmptyHref(href) == href # None /\ href.chars # <<>>

\* C8: each iteration issues exactly one scroll action and sleeps exactly
\* once after it, whether the action gave a successful result, a failed one
\* or None; a failed action adds no link and the loop goes on; a successful
\* one appends every internal link with a non-empty href.
C8_OneScrollOneSleepPerIteration ==
    /\ [](cr_pc \in {"while", "returned"} =>
            ScrollsIssued = scroll_count /\ sleeps = scroll_count)
    /\ [](cr_pc \in {"scrolling", "sleeping"} =>
            ScrollsIssued = scroll_count + 1 /\ sleeps = scroll_count)
    /\ [][cr_pc = "scrolling" /\ cr_pc' # "scroll_raised" =>
            /\ cr_pc' = "sleeping"
            /\ collected_links' =
                  IF result'.kind = "result" /\ result'.success
                  THEN collected_links \o SelectSeq(result'.links, NonEmptyHref)
                  ELSE collected_links]_vars
    /\ [][cr_pc = "sleeping" =>
            /\ cr_pc' = "while"
            /\ sleeps' = sleeps + 1
            /\ now' = now + scroll_interval
            /\ collected_links' = collected_links]_vars

\* the second iteration's action failed although its result carries links:
\* the links harvested by the first iteration are all there is, and the
\* sleep of the second iteration is under way
C8_Witness ==
    /\ cr_pc = "sleeping"
    /\ scroll_count = 1
    /\ result = PageResult(FALSE, <<Str(<<"a", "?", "b">>), Str(<<"b">>)>>)
    /\ collected_links = <<Str(<<"a">>)>>

ExploreOver == cr_pc \in {"returned", "load_raised", "scroll_raised"}

\* an iteration in which the clock does not advance: the scroll action took
\* no time and the sleep takes none
ClockStalled == cr_pc = "sleeping" /\ action_time = 0 /\ scroll_interval = 0

\* C23: explore returns only from the head of the loop, when the elapsed time
\* has reached the duration; a scroll action that has been issued and comes
\* back is followed by its sleep, and the sleep by the next test; and when
\* the clock advances in every iteration (scroll_interval > 0 or the scroll
\* actions take time) explore is over after finitely many iterations.
C23_StopTestedAtLoopHead ==
    /\ [][cr_pc' = "returned" =>
            cr_pc = "while" /\ ~((now - start_time) < duration_seconds)]_vars
    /\ [][cr_pc = "scrolling" /\ cr_pc' # "scroll_raised" =>
            cr_pc' = "sleeping"]_vars
    /\ [][cr_pc = "sleeping" => cr_pc' = "while" /\ sleeps' = sleeps + 1]_vars
    /\ <>(ExploreOver \/ ClockStalled)

C23_Witness ==
    /\ cr_pc = "returned"
    /\ scroll_count = 2
    /\ scroll_interval > 0
    /\ now - start_time >= duration_seconds + scroll_interval

\* C29: with duration_seconds <= 0 explore issues no scroll action and no
\* sleep and returns an empty list; with duration_seconds > 0 it issues at
\* least one scroll action.
C29_NoScrollWithoutDuration ==
    /\ duration_seconds <= 0 =>
           /\ ScrollsIssued = 0
           /\ sleeps = 0
           /\ collected_links = <<>>
           /\ cr_ret = <<>>
           /\ cr_pc \in {"start", "load_raised", "while", "returned"}
    /\ duration_seconds > 0 /\ cr_pc \in {"returned", "scroll_raised"} =>
           ScrollsIssued >= 1

C29_Witness ==
    /\ cr_pc = "returned"
    /\ duration_seconds < 0
    /\ now > 0
    /\ ScrollsIssued = 0

\* C9: every scroll action of an extract call is issued with js_only set and
\* with the session id the seed page was loaded with, and that id is never
\* absent.
C9_ScrollsReuseSeedSession ==
    \A k \in DOMAIN arun_log :
        arun_log[k].action = "scroll" =>
            /\ arun_log[k].js_only
            /\ arun_log[k].session_id = arun_log[1].session_id
            /\ arun_log[k].session_id # NoSession

SeedLoadFailed ==
    \/ seed_result.kind \in {"raise", "none"}
    \/ seed_result.kind = "result" /\ ~seed_result.success

\* C10: when the seed load does not succeed extract raises: explore is not
\* invoked (no scroll action is issued) and no list is returned.
C10_SeedFailureFatal ==
    SeedLoadFailed =>
        /\ cr_pc = "load_raised"
        /\ ScrollsIssued = 0
        /\ cr_ret = <<>>


\* C20: the session id of an instance is the id the caller's run
\* configuration carries, and it is never absent -- neither without a run
\* configuration nor with one that sets no session id; every seed load of
\* the instance is issued with it.
C20_SessionIdFixedNonNull ==
    cr_pc # "idle" =>
        /\ session_id # NoSession
        /\ ctor_run_config.given /\ ctor_run_config.session_id # NoSession
               => session_id = ctor_run_config.session_id
        /\ \A k \in DOMAIN arun_log :
               arun_log[k].action = "load" => arun_log[k].session_id = session_id

-----------------------------------------------------------------------------
(* Properties of two extract calls on one instance *)

\* C19: at most one browser action is in flight on a session at any time,
\* also while two extract calls run on the same URLExtractorCrawler.
C19_OneActionInFlight ==
    \A a, b \in InFlight :
        a.session_id = b.session_id /\ a.session_id # NoSession => a = b

-----------------------------------------------------------------------------
(* Properties of DeepSearchStrategy.explore *)

\* the URLs of the successful results of a stream, in stream order
RECURSIVE SuccessfulUrls(_)
SuccessfulUrls(stream) ==
    IF stream = <<>> THEN <<>>
    ELSE (IF Head(stream).success /\ Head(stream).has_url
          THEN <<Head(stream).url>>
          ELSE <<>>) \o SuccessfulUrls(Tail(stream))

\* C12: explore collects, and returns, exactly the URLs of the streamed
\* results whose visit succeeded, in the order they were streamed; a failed
\* result adds nothing, is taken once, and the results after it are still
\* read.
C12_SuccessfulInStreamOrder ==
    /\ ds_pc \in {"streaming", "returned"} =>
           extracted_links = SuccessfulUrls(SubSeq(ds_stream, 1, ds_i))
    /\ ds_pc = "returned" =>
           /\ ds_i = Len(ds_stream)
           /\ ds_ret = SuccessfulUrls(ds_stream)

C12_Witness ==
    /\ ds_pc = "returned"
    /\ ds_stream = <<StreamResult(TRUE, TRUE, "p2"),
                     StreamResult(FALSE, TRUE, "p1"),
                     StreamResult(TRUE, TRUE, "p1")>>
    /\ ds_ret = <<"p2", "p1">>

-----------------------------------------------------------------------------
(* Properties of the datetime sanitizers *)

\* C17: the chain calls its sanitizers in list order, returns the result of
\* the first that succeeds and calls none after it; when all of them fail,
\* and when the chain is empty, the call raises ValueError.
C17_FirstSuccessInOrder ==
    /\ Len(dt_calls) = dt_i
    /\ \A k \in DOMAIN dt_calls :
           /\ dt_calls[k].handler = k
           /\ dt_calls[k].sanitizer = dt_sanitizers[k]
           /\ dt_calls[k].outcome.kind = "ok" =>
                  /\ k = Len(dt_calls)
                  /\ dt_pc = "returned"
                  /\ dt_ret = dt_calls[k].outcome
    /\ dt_pc = "returned" =>
           dt_calls # <<>> /\ dt_calls[Len(dt_calls)].outcome.kind = "ok"
    /\ dt_pc = "raised" =>
           /\ Len(dt_calls) = Len(dt_sanitizers)
           /\ \A k \in DOMAIN dt_calls : dt_calls[k].outcome.kind = "raise"
           /\ dt_ret = Raised("ValueError")

C17_Witness ==
    /\ dt_pc = "returned"
    /\ dt_sanitizers = <<"full", "abbr">>
    /\ Len(dt_calls) = 1
    /\ dt_ret.kind = "ok"

\* an answer that is, whitespace around it aside, a date and a time or a date
InIsoForm(answer) ==
    \E lead, trail \in {<<>>, <<" ">>} :
        \/ answer = lead \o <<"%Y-%m-%d", "%H:%M:%S">> \o trail
        \/ answer = lead \o <<"%Y-%m-%d">> \o trail

\* C18: LLMBasedDateSanitizer returns a timestamp when the collaborator
\* answers `YYYY-MM-DD HH:MM:SS` or `YYYY-MM-DD` and raises the
\* unparseable-date ValueError for every other answer; as the last sanitizer
\* of a chain it is called only after every sanitizer before it has been
\* called and has failed.
C18_LLMAnswerForms ==
    \A k \in DOMAIN dt_calls :
        dt_calls[k].sanitizer = "llm" =>
            /\ ~dt_calls[k].reply.raised =>
                   IF InIsoForm(dt_calls[k].reply.answer)
                   THEN dt_calls[k].outcome.kind = "ok"
                   ELSE dt_calls[k].outcome = Raised("ValueError")
            /\ \A j \in 1..(k - 1) :
                   /\ dt_calls[j].handler = j
                   /\ dt_calls[j].outcome.kind = "raise"

C18_Witness ==
    /\ dt_pc = "returned"
    /\ dt_sanitizers = <<"full", "llm">>
    /\ Len(dt_calls) = 2
    /\ dt_calls[1].outcome = Raised("ValueError")
    /\ dt_calls[2].reply = Answer(<<"%Y-%m-%d", "%H:%M:%S">>)
    /\ dt_ret.kind = "ok"

\* C24: every object insert_documents adds to the batch carries the
\* properties of its document, with summarize true and with summarize
\* false; summarize only decides whether a summary field is added.
C24_AddedCarriesDocument ==
    \A k \in DOMAIN ins_added :
        LET a == ins_added[k]
        IN /\ a.properties # NoProperties
           /\ DOMAIN a.document \subseteq DOMAIN a.properties
           /\ \A key \in DOMAIN a.document :
                  a.properties[key] = a.document[key]
           /\ DOMAIN a.properties \ DOMAIN a.document \subseteq {"summary"}
           /\ ~summarize => DOMAIN a.properties = DOMAIN a.document

\* C25: insert_documents adds at most one object per UUID: a document whose
\* UUID the collection already holds is skipped, and of two documents of
\* one call with the same UUID only the first is added to the batch,
\* whenever the batch sends.  Calls in which a fetch raised are left aside.
C25_OneObjectPerUuid ==
    fetch_errors = 0 =>
        /\ \A k \in DOMAIN ins_added : ~ins_added[k].existed
        /\ \A j, k \in DOMAIN ins_added :
               ins_added[j].uuid = ins_added[k].uuid => j = k

\* the tool call a step makes, when it makes one
ToolStep == Len(as_calls') = Len(as_calls) + 1

\* C26: among the tool calls, only confirmar_redistribucion called while a
\* proposal is pending changes the portfolio: it sets the portfolio to the
\* proposal and clears the proposal.  confirmar_redistribucion with nothing
\* pending, cancelar_redistribucion, optimizar_portafolio, ver_portafolio
\* and buscar_noticias leave the portfolio as it is, and after
\* cancelar_redistribucion no proposal is pending.
C26_PortfolioFrame ==
    [][ToolStep =>
          LET tool == as_calls'[Len(as_calls')].tool
              confirms == /\ tool = "confirmar_redistribucion"
                          /\ DOMAIN propuesta # {}
          IN /\ confirms =>
                    portafolio' = propuesta /\ DOMAIN propuesta' = {}
             /\ ~confirms => portafolio' = portafolio
             /\ tool = "cancelar_redistribucion" => DOMAIN propuesta' = {}
             /\ tool \in {"ver_portafolio", "buscar_noticias"} =>
                    propuesta' = propuesta]_vars

C26_Witness ==
    /\ as_pc = "turn"
    /\ Len(as_calls) = 3
    /\ as_calls[1].tool = "optimizar_portafolio"
    /\ as_calls[2].tool = "confirmar_redistribucion"
    /\ as_calls[2].applied
    /\ as_calls[3].tool = "cancelar_redistribucion"
    /\ portafolio = as_calls[1].stored
    /\ portafolio # PortafolioInicial
    /\ DOMAIN propuesta = {}

\* the calls that settle what is pending: a proposal stored, a
\* confirmation, a cancellation
Settles(call) ==
    \/ call.tool \in {"confirmar_redistribucion", "cancelar_redistribucion"}
    \/ call.tool = "optimizar_portafolio" /\ DOMAIN call.stored # {}

\* the proposal the conversation left pending: the one stored last, unless
\* a confirmation or a cancellation was called after it
PendingAfter(calls) ==
    LET settling == {k \in DOMAIN calls : Settles(calls[k])}
    IN IF settling = {}
       THEN PropuestaVacia
       ELSE calls[CHOOSE k \in settling : \A j \in settling : j <= k].stored

\* the portfolio the conversation confirmed last, or the initial one
ConfirmedAfter(calls) ==
    LET confirming ==
            {k \in DOMAIN calls :
                /\ calls[k].tool = "confirmar_redistribucion"
                /\ DOMAIN PendingAfter(SubSeq(calls, 1, k - 1)) # {}}
    IN IF confirming = {}
       THEN PortafolioInicial
       ELSE LET last == CHOOSE k \in confirming : \A j \in confirming : j <= k
            IN PendingAfter(SubSeq(calls, 1, last - 1))

\* C27: a proposal stored by optimizar_portafolio stays pending until
\* confirmar_redistribucion or cancelar_redistribucion is called, in the
\* same chat turn or in a later one; a confirmation applies it to the
\* portfolio, and the confirmed portfolio is the one ver_portafolio shows in
\* later turns.
C27_ProposalOutlivesTurn ==
    as_pc = "turn" =>
        /\ propuesta = PendingAfter(as_calls)
        /\ portafolio = ConfirmedAfter(as_calls)
        /\ (as_calls # <<>> /\ as_calls[Len(as_calls)].tool = "ver_portafolio")
               => as_shown = Resumen(ConfirmedAfter(as_calls))

\* the collections of a state that do not bear the name
OtherThan(cols, name) == {c \in cols : c.name # name}

\* C30: create_collection and delete_collection are idempotent over any
\* sequence of calls: creating a name that exists and deleting a name that
\* does not exist change nothing and raise nothing; after create_collection
\* the name exists, after delete_collection it does not, and neither call
\* touches a collection of another name.
C30_CreateDeleteIdempotent ==
    [][Len(sm_log') = Len(sm_log) + 1 =>
          LET call == sm_log'[Len(sm_log')]
              held == \E c \in collections : c.name = call.name
              holds == \E c \in collections' : c.name = call.name
          IN /\ sm_pc' = "ready"
             /\ OtherThan(collections', call.name) =
                    OtherThan(collections, call.name)
             /\ call.op = "create" =>
                    holds /\ (held => collections' = collections)
             /\ call.op = "delete" =>
                    ~holds /\ (~held => collections' = collections)]_vars

C30_Witness ==
    /\ sm_pc = "ready"
    /\ Len(sm_log) = 3
    /\ sm_log[1] = [op |-> "create", name |-> "News", existed |-> FALSE]
    /\ sm_log[2] = [op |-> "create", name |-> "News", existed |-> TRUE]
    /\ sm_log[3] = [op |-> "delete", name |-> "Docs", existed |-> FALSE]
    /\ collections = {Collection("News", <<"title">>)}

=============================================================================
